---- MODULE Spec2Model ----
(***************************************************************************)
(* Model of src/main.py: the Qobuz app-id / secret discovery pipeline.     *)
(*                                                                         *)
(* Text is modelled as sequences of one-character strings.  A str that     *)
(* results from bytes.decode("utf-8") is represented by its UTF-8 bytes    *)
(* (a sequence of 0..255): the encoding is injective, so emptiness and     *)
(* equality of the text are emptiness and equality of the bytes.           *)
(***************************************************************************)
EXTENDS Integers, Sequences, FiniteSets, TLC

\* Bound of the model: the number of pattern occurrences in a bundle body.
MaxItems == 3

\* "".join(secret_array)[:-44]
TrailerLen == 44

\* response.status != 400
BadRequest == 400

\* response.raise_for_status() raises for every status from 400 upwards
ErrorStatusFloor == 400

----------------------------------------------------------------------------
(* Characters and text helpers *)

\* The one non-ASCII word character of the model (Python's \w is Unicode-aware).
NonAsciiChar == "U+00E9"

\* "".join(secret_array)
RECURSIVE Join(_)
Join(secret_array) ==
    IF secret_array = <<>> THEN <<>>
    ELSE Head(secret_array) \o Join(Tail(secret_array))

\* s[:-44]: everything but the last 44 characters, empty when there are no more
DropTrailer(s) ==
    IF Len(s) > TrailerLen THEN SubSeq(s, 1, Len(s) - TrailerLen) ELSE <<>>

\* The standard base64 alphabet, value i-1 at position i.
Alphabet ==
    << "A","B","C","D","E","F","G","H","I","J","K","L","M","N","O","P",
       "Q","R","S","T","U","V","W","X","Y","Z","a","b","c","d","e","f",
       "g","h","i","j","k","l","m","n","o","p","q","r","s","t","u","v",
       "w","x","y","z","0","1","2","3","4","5","6","7","8","9","+","/" >>

AlphabetChars == { Alphabet[i] : i \in 1..Len(Alphabet) }

\* the decoder's lookup table
B64Table ==
    [c \in AlphabetChars |-> (CHOOSE i \in 1..Len(Alphabet) : Alphabet[i] = c) - 1]

InAlphabet(c) == c \in AlphabetChars

B64Val(c) == B64Table[c]

\* base64.b64decode on a str first encodes it as ASCII and raises ValueError
\* (not binascii.Error) when that fails.
IsAscii(s) == \A i \in 1..Len(s) : s[i] # NonAsciiChar

(* binascii.a2b_base64 in its default, non-strict mode, one character at a *)
(* time: characters outside the alphabet are skipped, a pad sequence that  *)
(* completes a quad ends the parse (done).  quad_pos, leftchar and pads    *)
(* are the decoder's registers, out the bytes written so far.              *)
B64Step(st, c) ==
    IF st.done THEN st
    ELSE IF c = "="
    THEN IF st.quad_pos >= 2 /\ st.quad_pos + st.pads + 1 >= 4
         THEN [st EXCEPT !.done = TRUE]
         ELSE IF st.quad_pos >= 2 THEN [st EXCEPT !.pads = @ + 1] ELSE st
    ELSE IF ~InAlphabet(c) THEN st
    ELSE LET v == B64Val(c) IN
         CASE st.quad_pos = 0 ->
                [st EXCEPT !.quad_pos = 1, !.leftchar = v, !.pads = 0]
           [] st.quad_pos = 1 ->
                [st EXCEPT !.quad_pos = 2, !.leftchar = v % 16, !.pads = 0,
                           !.out = Append(@, st.leftchar * 4 + v \div 16)]
           [] st.quad_pos = 2 ->
                [st EXCEPT !.quad_pos = 3, !.leftchar = v % 4, !.pads = 0,
                           !.out = Append(@, st.leftchar * 16 + v \div 4)]
           [] OTHER ->
                [st EXCEPT !.quad_pos = 0, !.leftchar = 0, !.pads = 0,
                           !.out = Append(@, st.leftchar * 64 + v)]

\* the decoder's loop over s[lo..hi], left to right
RECURSIVE B64Run(_, _, _, _)
B64Run(s, lo, hi, st) ==
    IF lo > hi THEN st
    ELSE IF lo = hi THEN B64Step(st, s[lo])
    ELSE LET mid == (lo + hi) \div 2
             left == B64Run(s, lo, mid, st)
         IN IF left.done THEN left ELSE B64Run(s, mid + 1, hi, left)

\* base64.b64decode(s) for ASCII s: ok = FALSE stands for binascii.Error
\* (data left in an incomplete quad)
b64decode(s) ==
    LET st == B64Run(s, 1, Len(s),
                     [quad_pos |-> 0, leftchar |-> 0, pads |-> 0,
                      out |-> <<>>, done |-> FALSE])
    IN IF ~st.done /\ st.quad_pos # 0
       THEN [ok |-> FALSE, bytes |-> <<>>]
       ELSE [ok |-> TRUE, bytes |-> st.out]

(* The strict UTF-8 decoder, one byte at a time: need continuation bytes   *)
(* are still due, the next of them within lo..hi (which excludes overlong  *)
(* forms, surrogates and code points above U+10FFFF).                      *)
Utf8Step(st, c) ==
    IF ~st.ok THEN st
    ELSE IF st.need > 0
    THEN IF c >= st.lo /\ c <= st.hi
         THEN [st EXCEPT !.need = @ - 1, !.lo = 128, !.hi = 191]
         ELSE [st EXCEPT !.ok = FALSE]
    ELSE CASE c <= 127 -> st
           [] c >= 194 /\ c <= 223 -> [st EXCEPT !.need = 1]
           [] c = 224 -> [st EXCEPT !.need = 2, !.lo = 160]
           [] c = 237 -> [st EXCEPT !.need = 2, !.hi = 159]
           [] c >= 225 /\ c <= 239 /\ c # 237 -> [st EXCEPT !.need = 2]
           [] c = 240 -> [st EXCEPT !.need = 3, !.lo = 144]
           [] c >= 241 /\ c <= 243 -> [st EXCEPT !.need = 3]
           [] c = 244 -> [st EXCEPT !.need = 3, !.hi = 143]
           [] OTHER -> [st EXCEPT !.ok = FALSE]

RECURSIVE Utf8Run(_, _, _, _)
Utf8Run(b, lo, hi, st) ==
    IF lo > hi THEN st
    ELSE IF lo = hi THEN Utf8Step(st, b[lo])
    ELSE LET mid == (lo + hi) \div 2
             left == Utf8Run(b, lo, mid, st)
         IN IF ~left.ok THEN left ELSE Utf8Run(b, mid + 1, hi, left)

\* bytes.decode("utf-8") succeeds (FALSE stands for UnicodeDecodeError)
Utf8Valid(b) ==
    LET st == Utf8Run(b, 1, Len(b), [ok |-> TRUE, need |-> 0, lo |-> 128, hi |-> 191])
    IN st.ok /\ st.need = 0

(* decode_secret: "value" with the decoded text, "none" when one of the two *)
(* caught exceptions is raised, "raise" when b64decode raises the plain    *)
(* ValueError that the except clause does not name.                        *)
decode_secret(secret_array) ==
    LET combined_secret == DropTrailer(Join(secret_array)) IN
    IF ~IsAscii(combined_secret)
    THEN [kind |-> "raise", text |-> <<>>]
    ELSE LET d == b64decode(combined_secret) IN
         IF ~d.ok THEN [kind |-> "none", text |-> <<>>]
         ELSE IF ~Utf8Valid(d.bytes) THEN [kind |-> "none", text |-> <<>>]
         ELSE [kind |-> "value", text |-> d.bytes]

----------------------------------------------------------------------------
(* The remote side: what the login page and the bundle may contain.  A     *)
(* body is modelled by the occurrences, in text order, of the shapes the   *)
(* program's patterns look for.                                            *)

GoodTag1 == "/resources/7.1.3-b011/bundle.js"
GoodTag2 == "/resources/8.0.0-a001/bundle.js"
OtherTag == "/static/vendor.js"

\* <script src="..."> occurrences of a login page
LoginPages == { <<>>, <<OtherTag>>, <<OtherTag, GoodTag1, GoodTag2>> }

AppId1 == "123456789"
AppId2 == "987654321"

\* a bundle's production:{api:{appId:"<9 digits>",appSecret:"<32 word chars>"
\* occurrences are <<>> or <<AppId1, AppId2>>

Filler == [i \in 1..TrailerLen |-> "A"]

TokShort    == <<"Y","Q","=","=">>
TokAB       == <<"Y","W","I","=">> \o Filler
TokBadUtf8  == <<"g","A","=","=">> \o Filler
TokBadPad   == <<"Y","Q">> \o Filler
TokNonAscii == <<NonAsciiChar>> \o Filler

\* tokens matching [\w=]+ used as seeds
SeedTokens == { TokShort, TokAB, TokBadUtf8, TokBadPad, TokNonAscii }

\* region names matching [a-z]+
Regions == { <<"p","a">>, <<"b","e">> }

\* the text after "name:\"\w+/" in an info/extras object literal
NameRegions == { <<"P","a">>, <<"B","e">>, <<>> }

SeedItem(seed, tz) == [kind |-> "seed", tz |-> tz, a |-> seed, b |-> <<>>]
InfoItem(region, info, extras) ==
    [kind |-> "info", tz |-> region, a |-> info, b |-> extras]

Items ==
    { SeedItem(s, tz) : s \in SeedTokens, tz \in Regions }
    \cup { InfoItem(r, <<"_">>, Filler) : r \in NameRegions }

ItemSeqs(n) == UNION { [1..k -> Items] : k \in 0..n }

\* bundle bodies: with the production config, any occurrences up to the
\* bound; without it (the run stops before it looks at them), at most one
Bundles ==
    [appIds : {<<AppId1, AppId2>>}, items : ItemSeqs(MaxItems)]
    \cup [appIds : {<<>>}, items : ItemSeqs(1)]

\* what one GET can end in: a response with a status, or a transport failure
FetchOutcomes ==
    { [ok |-> TRUE, status |-> 200], [ok |-> TRUE, status |-> 404],
      [ok |-> FALSE, status |-> 0] }

ValidateOutcomes ==
    { [ok |-> TRUE, status |-> 200], [ok |-> TRUE, status |-> 400],
      [ok |-> TRUE, status |-> 401], [ok |-> TRUE, status |-> 404],
      [ok |-> TRUE, status |-> 500], [ok |-> FALSE, status |-> 0] }

----------------------------------------------------------------------------
(* Pure helpers of the pipeline *)

\* faulty variant: fetch_url without the raise_for_status() call
NeverRaisesForStatus(status) == FALSE

\* response.raise_for_status()
RaisesForStatus(status) == status >= ErrorStatusFloor

\* fetch_url: "" when the body is returned, else the exception raised
fetch_url(outcome) ==
    IF ~outcome.ok THEN "ClientConnectionError"
    ELSE IF RaisesForStatus(outcome.status) THEN "ClientResponseError"
    ELSE ""

\* the bundle <script> pattern
MatchesBundleTag(tag) == tag \in {GoodTag1, GoodTag2}

\* re.search: the first matching occurrence, <<>> for no match
RECURSIVE SearchBundleTag(_)
SearchBundleTag(page) ==
    IF page = <<>> THEN <<>>
    ELSE IF MatchesBundleTag(Head(page)) THEN <<Head(page)>>
    ELSE SearchBundleTag(Tail(page))

\* app_id_regex.search(bundle): the first occurrence, <<>> for no match
SearchAppId(b) == IF b.appIds = <<>> THEN <<>> ELSE <<Head(b.appIds)>>

Upper(c) ==
    CASE c = "p" -> "P" [] c = "a" -> "A" [] c = "b" -> "B" [] c = "e" -> "E"
      [] OTHER -> c

Lower(c) ==
    CASE c = "P" -> "p" [] c = "A" -> "a" [] c = "B" -> "b" [] c = "E" -> "e"
      [] OTHER -> c

\* str.lower
lower(s) == [i \in 1..Len(s) |-> Lower(s[i])]

\* str.capitalize
capitalize(s) == [i \in 1..Len(s) |-> IF i = 1 THEN Upper(s[i]) ELSE Lower(s[i])]

(* secrets: Dict[str, List[str]], an insertion-ordered dict, modelled as a  *)
(* sequence of [tz, frags] entries with distinct tz.                       *)
DictKeys(d) == { d[i].tz : i \in 1..Len(d) }

DictIndex(d, k) == CHOOSE i \in 1..Len(d) : d[i].tz = k

\* d[k] = v: a present key keeps its position, a new key goes to the end
DictSet(d, k, v) ==
    IF k \in DictKeys(d)
    THEN [d EXCEPT ![DictIndex(d, k)].frags = v]
    ELSE Append(d, [tz |-> k, frags |-> v])

\* faulty variant: secrets.setdefault(timezone, []).append(seed), which keeps the
\* earlier seeds of a region
SeedStoreAppend(d, m) ==
    IF m.tz \in DictKeys(d)
    THEN [d EXCEPT ![DictIndex(d, m.tz)].frags = Append(@, m.a)]
    ELSE Append(d, [tz |-> m.tz, frags |-> <<m.a>>])

\* secrets[seed_match.group("timezone")] = [seed_match.group("seed")]
SeedStore(d, m) == DictSet(d, m.tz, <<m.a>>)

\* for seed_match in seed_timezone_regex.finditer(bundle): ...
RECURSIVE SeedLoop(_, _)
SeedLoop(items, d) ==
    IF items = <<>> THEN d
    ELSE SeedLoop(Tail(items),
                  IF Head(items).kind = "seed" THEN SeedStore(d, Head(items)) ELSE d)

\* "|".join(tz.capitalize() for tz in secrets.keys()) as the set of
\* alternatives of the timezone group; the empty join matches the empty text
Timezones(d) ==
    IF Len(d) = 0 THEN { <<>> } ELSE { capitalize(k) : k \in DictKeys(d) }

\* info_extras_regex matches this occurrence
InfoExtrasMatches(it, alts) == it.kind = "info" /\ it.tz \in alts

\* faulty variant: secrets.setdefault(timezone, []).extend([info, extras]), without
\* the membership test
InfoStoreSetDefault(d, m) ==
    LET timezone == lower(m.tz) IN
    IF timezone \in DictKeys(d)
    THEN [d EXCEPT ![DictIndex(d, timezone)].frags = @ \o <<m.a, m.b>>]
    ELSE Append(d, [tz |-> timezone, frags |-> <<m.a, m.b>>])

\* if timezone in secrets: secrets[timezone].extend([info, extras])
InfoStore(d, m) ==
    LET timezone == lower(m.tz) IN
    IF timezone \in DictKeys(d)
    THEN [d EXCEPT ![DictIndex(d, timezone)].frags = @ \o <<m.a, m.b>>]
    ELSE d

\* for match in info_extras_regex.finditer(bundle): ...
\* (the pattern is compiled once, from the keys of the seed pass: alts)
RECURSIVE InfoLoop(_, _, _)
InfoLoop(items, alts, d) ==
    IF items = <<>> THEN d
    ELSE InfoLoop(Tail(items), alts,
                  IF InfoExtrasMatches(Head(items), alts)
                  THEN InfoStore(d, Head(items)) ELSE d)

\* faulty variant: the filter "is not None" in place of truthiness
KeepsNotNone(r) == r.kind = "value"

\* the message of the ValueError base64.b64decode raises for a non-ASCII str
AsciiError == "string argument should contain only ASCII characters"

\* the filter of the comprehension: if (secret := decode_secret(secret_array))
Keeps(r) == r.kind = "value" /\ r.text # <<>>

(* [secret for secret_array in secrets.values()                            *)
(*         if (secret := decode_secret(secret_array))]                     *)
(* raised: decode_secret raised, which ends the comprehension.             *)
RECURSIVE DecodeLoop(_, _)
DecodeLoop(d, acc) ==
    IF d = <<>> THEN [raised |-> FALSE, list |-> acc]
    ELSE LET r == decode_secret(Head(d).frags) IN
         IF r.kind = "raise" THEN [raised |-> TRUE, list |-> <<>>]
         ELSE DecodeLoop(Tail(d), IF Keeps(r) THEN Append(acc, r.text) ELSE acc)

\* faulty variant: the candidates in reverse discovery order
DecodeAllReversed(d) ==
    LET r == DecodeLoop(d, <<>>) IN
    [r EXCEPT !.list = [k \in 1..Len(@) |-> @[Len(@) + 1 - k]]]

DecodeAll(d) == DecodeLoop(d, <<>>)

\* faulty variant: return response.status == 200
AcceptedOnlyOn200(status) == status = 200

\* return response.status != 400
Accepted(status) == status # BadRequest

----------------------------------------------------------------------------
(* State *)

VARIABLES
    pc,               \* position in get_app_id_and_secrets / __main__
    login_page,       \* local login_page
    bundle_url,       \* local bundle_url, <<>> while unset
    bundle,           \* local bundle
    app_id,           \* local app_id
    secrets,          \* local secrets
    decoded_secrets,  \* local decoded_secrets
    idx,              \* position of the for loop over decoded_secrets
    exc,              \* the exception being propagated, "" for none
    result,           \* the value returned by get_app_id_and_secrets
    output,           \* the lines printed so far
    log               \* the network requests and responses, in order

vars == << pc, login_page, bundle_url, bundle, app_id, secrets,
           decoded_secrets, idx, exc, result, output, log >>

None == [some |-> FALSE, app_id |-> "", secret |-> <<>>]

NoBundle == [appIds |-> <<>>, items |-> <<>>]

Request(stage, id, secret) ==
    [ev |-> "request", stage |-> stage, app_id |-> id, secret |-> secret,
     ok |-> TRUE, status |-> 0]

Response(stage, outcome) ==
    [ev |-> "response", stage |-> stage, app_id |-> "", secret |-> <<>>,
     ok |-> outcome.ok, status |-> outcome.status]

Init ==
    /\ pc = "start"
    /\ login_page = <<>>
    /\ bundle_url = <<>>
    /\ bundle = NoBundle
    /\ app_id = ""
    /\ secrets = <<>>
    /\ decoded_secrets = <<>>
    /\ idx = 1
    /\ exc = ""
    /\ result = None
    /\ output = <<>>
    /\ log = <<>>

\* raise <e> inside the try block
Raise(e) == pc' = "except" /\ exc' = e

----------------------------------------------------------------------------
(* Actions *)

\* session.get(login_url) is issued
SendLogin ==
    /\ pc = "start"
    /\ log' = Append(log, Request("login", "", <<>>))
    /\ pc' = "await_login"
    /\ UNCHANGED << login_page, bundle_url, bundle, app_id, secrets,
                    decoded_secrets, idx, exc, result, output >>

\* login_page = await fetch_url(session, login_url)
RecvLogin ==
    /\ pc = "await_login"
    /\ \E outcome \in FetchOutcomes, page \in LoginPages :
         /\ log' = Append(log, Response("login", outcome))
         /\ IF fetch_url(outcome) # ""
            THEN Raise(fetch_url(outcome)) /\ UNCHANGED login_page
            ELSE pc' = "locate" /\ login_page' = page /\ UNCHANGED exc
    /\ UNCHANGED << bundle_url, bundle, app_id, secrets, decoded_secrets,
                    idx, result, output >>

\* bundle_url_match = re.search(...); raise ValueError if not found
LocateBundle ==
    /\ pc = "locate"
    /\ IF SearchBundleTag(login_page) = <<>>
       THEN Raise("Could not find bundle URL") /\ UNCHANGED bundle_url
       ELSE /\ bundle_url' = <<"https://play.qobuz.com", SearchBundleTag(login_page)[1]>>
            /\ pc' = "fetch_bundle"
            /\ UNCHANGED exc
    /\ UNCHANGED << login_page, bundle, app_id, secrets, decoded_secrets,
                    idx, result, output, log >>

\* session.get(bundle_url) is issued
SendBundle ==
    /\ pc = "fetch_bundle"
    /\ log' = Append(log, Request("bundle", "", <<>>))
    /\ pc' = "await_bundle"
    /\ UNCHANGED << login_page, bundle_url, bundle, app_id, secrets,
                    decoded_secrets, idx, exc, result, output >>

\* bundle = await fetch_url(session, bundle_url)
RecvBundle ==
    /\ pc = "await_bundle"
    /\ \E outcome \in FetchOutcomes, body \in Bundles :
         /\ log' = Append(log, Response("bundle", outcome))
         /\ IF fetch_url(outcome) # ""
            THEN Raise(fetch_url(outcome)) /\ UNCHANGED bundle
            ELSE pc' = "extract_app_id" /\ bundle' = body /\ UNCHANGED exc
    /\ UNCHANGED << login_page, bundle_url, app_id, secrets, decoded_secrets,
                    idx, result, output >>

\* app_id_match = app_id_regex.search(bundle); raise ValueError if not found
ExtractAppId ==
    /\ pc = "extract_app_id"
    /\ IF SearchAppId(bundle) = <<>>
       THEN Raise("Could not find app ID") /\ UNCHANGED app_id
       ELSE app_id' = SearchAppId(bundle)[1] /\ pc' = "seed_pass" /\ UNCHANGED exc
    /\ UNCHANGED << login_page, bundle_url, bundle, secrets, decoded_secrets,
                    idx, result, output, log >>

\* secrets = {}; the loop over seed_timezone_regex.finditer(bundle)
SeedPass ==
    /\ pc = "seed_pass"
    /\ secrets' = SeedLoop(bundle.items, <<>>)
    /\ pc' = "info_pass"
    /\ UNCHANGED << login_page, bundle_url, bundle, app_id, decoded_secrets,
                    idx, exc, result, output, log >>

\* info_extras_regex = re.compile(...); the loop over its finditer(bundle)
InfoExtrasPass ==
    /\ pc = "info_pass"
    /\ secrets' = InfoLoop(bundle.items, Timezones(secrets), secrets)
    /\ pc' = "decode"
    /\ UNCHANGED << login_page, bundle_url, bundle, app_id, decoded_secrets,
                    idx, exc, result, output, log >>

\* decoded_secrets = [...]
DecodeSecrets ==
    /\ pc = "decode"
    /\ IF DecodeAll(secrets).raised
       THEN /\ Raise(AsciiError)
            /\ UNCHANGED decoded_secrets
       ELSE /\ decoded_secrets' = DecodeAll(secrets).list
            /\ pc' = "validate"
            /\ UNCHANGED exc
    /\ idx' = 1
    /\ UNCHANGED << login_page, bundle_url, bundle, app_id, secrets,
                    result, output, log >>

\* for secret in decoded_secrets: validate_secret(...) issues its session.get
SendValidate ==
    /\ pc = "validate"
    /\ idx <= Len(decoded_secrets)
    /\ log' = Append(log, Request("validate", app_id, decoded_secrets[idx]))
    /\ pc' = "await_validate"
    /\ UNCHANGED << login_page, bundle_url, bundle, app_id, secrets,
                    decoded_secrets, idx, exc, result, output >>

\* the response arrives: if await validate_secret(...): return {...}
RecvValidate ==
    /\ pc = "await_validate"
    /\ \E outcome \in ValidateOutcomes :
         /\ log' = Append(log, Response("validate", outcome))
         /\ IF ~outcome.ok
            THEN Raise("ClientConnectionError") /\ UNCHANGED << idx, result >>
            ELSE IF Accepted(outcome.status)
            THEN /\ result' = [some |-> TRUE, app_id |-> app_id,
                               secret |-> decoded_secrets[idx]]
                 /\ pc' = "returned"
                 /\ UNCHANGED << idx, exc >>
            ELSE /\ idx' = idx + 1
                 /\ pc' = "validate"
                 /\ UNCHANGED << exc, result >>
    /\ UNCHANGED << login_page, bundle_url, bundle, app_id, secrets,
                    decoded_secrets, output >>

\* the loop ends: raise ValueError("No valid secret found")
RaiseNoValidSecret ==
    /\ pc = "validate"
    /\ idx > Len(decoded_secrets)
    /\ Raise("No valid secret found")
    /\ UNCHANGED << login_page, bundle_url, bundle, app_id, secrets,
                    decoded_secrets, idx, result, output, log >>

\* the line printed by the except clause
ErrorLine(e) == <<"Error:", e>>

\* except Exception as e: print(...); return None
ExceptHandler ==
    /\ pc = "except"
    /\ output' = Append(output, ErrorLine(exc))
    /\ result' = None
    /\ pc' = "returned"
    /\ UNCHANGED << login_page, bundle_url, bundle, app_id, secrets,
                    decoded_secrets, idx, exc, log >>

\* faulty variant: print_colored_result without its else branch
ResultLinesSilentOnFailure(r) ==
    IF r.some
    THEN << <<"Qobuz AppID and Secret">>, <<"App ID:", r.app_id>>,
            <<"Secret:", r.secret>> >>
    ELSE <<>>

\* the lines print_colored_result prints for a result
ResultLines(r) ==
    IF r.some
    THEN << <<"Qobuz AppID and Secret">>, <<"App ID:", r.app_id>>,
            <<"Secret:", r.secret>> >>
    ELSE << <<"Failed to retrieve app ID and secret.">> >>

\* print_colored_result(result)
PrintColoredResult ==
    /\ pc = "returned"
    /\ output' = output \o ResultLines(result)
    /\ pc' = "done"
    /\ UNCHANGED << login_page, bundle_url, bundle, app_id, secrets,
                    decoded_secrets, idx, exc, result, log >>

Next ==
    \/ SendLogin
    \/ RecvLogin
    \/ LocateBundle
    \/ SendBundle
    \/ RecvBundle
    \/ ExtractAppId
    \/ SeedPass
    \/ InfoExtrasPass
    \/ DecodeSecrets
    \/ SendValidate
    \/ RecvValidate
    \/ RaiseNoValidSecret
    \/ ExceptHandler
    \/ PrintColoredResult

Spec == Init /\ [][Next]_vars

----------------------------------------------------------------------------
(* Vocabulary of the properties *)

\* the try block got past the app-id extraction
Extracted == app_id # ""

\* the seed pass has run
AfterSeedPass == Extracted /\ pc # "seed_pass"

\* the info/extras pass has run
AfterInfoPass == AfterSeedPass /\ pc # "info_pass"

\* the decode stage has run
AfterDecode == AfterInfoPass /\ pc # "decode"

Finished == pc \in {"returned", "done"}

IsValidateRequest(e) == e.ev = "request" /\ e.stage = "validate"
IsValidateResponse(e) == e.ev = "response" /\ e.stage = "validate"
IsFetchResponse(e) == e.ev = "response" /\ e.stage \in {"login", "bundle"}

ValidateEvents == SelectSeq(log, LAMBDA e : e.stage = "validate")
ValidateRequests == SelectSeq(log, IsValidateRequest)
ValidateResponses == SelectSeq(log, IsValidateResponse)

\* the regions of the seed occurrences, each once, in first-seen order
RECURSIVE FirstSeen(_, _)
FirstSeen(items, seen) ==
    IF items = <<>> THEN seen
    ELSE FirstSeen(Tail(items),
                   IF /\ Head(items).kind = "seed"
                      /\ \A i \in 1..Len(seen) : seen[i] # Head(items).tz
                   THEN Append(seen, Head(items).tz) ELSE seen)

SeedPositions(items, tz) ==
    { i \in 1..Len(items) : items[i].kind = "seed" /\ items[i].tz = tz }

\* the seed of the last seed occurrence for region tz
LastSeed(items, tz) ==
    LET last == CHOOSE i \in SeedPositions(items, tz) :
                    \A j \in SeedPositions(items, tz) : j <= i
    IN items[last].a

\* info, extras of every info/extras occurrence naming region tz, in text order
RECURSIVE InfoPairs(_, _)
InfoPairs(items, tz) ==
    IF items = <<>> THEN <<>>
    ELSE (IF Head(items).kind = "info" /\ Head(items).tz = capitalize(tz)
          THEN <<Head(items).a, Head(items).b>> ELSE <<>>)
         \o InfoPairs(Tail(items), tz)

\* a decode result that is a non-empty text
NonEmptyText(r) == r.kind = "value" /\ r.text # <<>>

\* decode_secret of every region, in dict order
Decodes(d) == [i \in 1..Len(d) |-> decode_secret(d[i].frags)]

\* the decodable candidates in discovery order
Candidates(d) ==
    LET rs == Decodes(d)
        kept == SelectSeq(rs, NonEmptyText)
    IN [k \in 1..Len(kept) |-> kept[k].text]

IsRejection(e) == e.ok /\ e.status = 400
IsAcceptance(e) == e.ok /\ e.status # 400

----------------------------------------------------------------------------
(* C1 *)

\* C1: validation calls are issued one at a time, each only after the
\* response to the previous one, on the decodable candidates in the order
\* their regions were first discovered; nothing is requested after an
\* accepting response, and the credential returned is the first accepted
\* candidate paired with the extracted app id.
C1_SequentialFirstAccepted ==
    /\ \A i \in 1..Len(ValidateEvents) :
          ValidateEvents[i].ev = IF i % 2 = 1 THEN "request" ELSE "response"
    /\ \A i \in 1..Len(log) :
          IsValidateResponse(log[i]) /\ ~IsRejection(log[i]) => i = Len(log)
    /\ ValidateRequests # <<>> =>
          LET cands == Candidates(secrets) IN
          /\ [i \in 1..Len(secrets) |-> secrets[i].tz] = FirstSeen(bundle.items, <<>>)
          /\ Len(ValidateRequests) <= Len(cands)
          /\ \A k \in 1..Len(ValidateRequests) :
                /\ ValidateRequests[k].secret = cands[k]
                /\ ValidateRequests[k].app_id = Head(bundle.appIds)
          /\ result.some =>
                /\ IsAcceptance(ValidateResponses[Len(ValidateResponses)])
                /\ \A k \in 1..(Len(ValidateResponses) - 1) :
                      IsRejection(ValidateResponses[k])
                /\ result.secret = cands[Len(ValidateResponses)]
                /\ result.app_id = Head(bundle.appIds)
          /\ (/\ Finished
              /\ Len(ValidateResponses) >= 2
              /\ IsRejection(ValidateResponses[1])
              /\ IsAcceptance(ValidateResponses[2]))
             => /\ Len(ValidateRequests) = 2
                /\ result.some
                /\ result.secret = cands[2]
    /\ result.some => ValidateResponses # <<>>

\* Two distinct candidates, the first rejected with 400, the second accepted.
C1_Witness ==
    /\ pc = "done"
    /\ Len(ValidateRequests) = 2
    /\ ValidateResponses[1].status = 400
    /\ ValidateResponses[2].status = 200
    /\ ValidateRequests[1].secret # ValidateRequests[2].secret
    /\ result.some
    /\ result.secret = ValidateRequests[2].secret

----------------------------------------------------------------------------
(* C2 *)

\* every decodable candidate was answered with 400 (none, when there is none)
AllCandidatesRejected ==
    /\ Len(ValidateResponses) = Len(Candidates(secrets))
    /\ \A k \in 1..Len(ValidateResponses) : IsRejection(ValidateResponses[k])

\* C2: when every decodable candidate is rejected with 400, or there is no
\* decodable candidate, the run ends in the "No valid secret found" failure
\* and returns None, each candidate validated exactly once; a credential is
\* returned only if the validator accepted that secret with that app id.
C2_NoValidSecretFound ==
    /\ (/\ Finished
        /\ AfterDecode
        /\ \/ Candidates(secrets) = <<>>
           \/ AllCandidatesRejected)
       => /\ exc = "No valid secret found"
          /\ result = None
          /\ Len(ValidateRequests) = Len(Candidates(secrets))
          /\ \A k \in 1..Len(ValidateRequests) :
                ValidateRequests[k].secret = Candidates(secrets)[k]
    /\ result.some =>
          \E i \in 1..(Len(log) - 1) :
              /\ IsValidateRequest(log[i])
              /\ log[i].secret = result.secret
              /\ log[i].app_id = result.app_id
              /\ IsValidateResponse(log[i + 1])
              /\ IsAcceptance(log[i + 1])

----------------------------------------------------------------------------
(* C3 *)

\* C3: a validation response with status 400 never yields a credential and
\* lets the scan go on; a response with any other status (200, 401, 404,
\* 500) is an acceptance: it ends the scan with a credential and raises
\* nothing.
C3_Only400Rejects ==
    \A i \in 1..Len(log) :
        IsValidateResponse(log[i]) /\ log[i].ok =>
            IF log[i].status = 400
            THEN /\ i = Len(log) =>
                      /\ ~result.some
                      /\ exc \in {"", "No valid secret found"}
                      /\ pc \in {"validate", "except", "returned", "done"}
                 /\ i < Len(log) => IsValidateRequest(log[i + 1])
            ELSE /\ i = Len(log)
                 /\ result.some
                 /\ result.secret = log[i - 1].secret
                 /\ exc = ""
                 /\ pc \in {"returned", "done"}

\* A rejection with 400 followed by an acceptance on a non-2xx status.
C3_Witness ==
    /\ pc = "done"
    /\ Len(ValidateResponses) = 2
    /\ ValidateResponses[1].status = 400
    /\ ValidateResponses[2].status = 401
    /\ result.some

----------------------------------------------------------------------------
(* C4 *)

\* the entries of d that the comprehension applies decode_secret to: up to
\* and including the first one that raises
RECURSIVE Processed(_)
Processed(d) ==
    IF d = <<>> THEN <<>>
    ELSE IF decode_secret(Head(d).frags).kind = "raise" THEN <<Head(d)>>
    ELSE <<Head(d)>> \o Processed(Tail(d))

\* the remainder is text that base64 rejects: a character that cannot be
\* base64 data, or a malformed quad
NotValidBase64(s) == ~IsAscii(s) \/ ~b64decode(s).ok

\* C4: for every fragment list decode_secret is applied to, the result is
\* none, and nothing is raised, when the joined fragments are shorter than
\* 44 characters, or the remainder is not valid base64, or its bytes are
\* not valid text.
C4_DecodeFailureIsNone ==
    AfterDecode =>
        \A i \in 1..Len(Processed(secrets)) :
            LET frags == Processed(secrets)[i].frags
                rest == DropTrailer(Join(frags))
            IN (\/ Len(Join(frags)) < TrailerLen
                \/ NotValidBase64(rest)
                \/ ~Utf8Valid(b64decode(rest).bytes))
               => decode_secret(frags).kind = "none"

----------------------------------------------------------------------------
(* C5 *)

HasRequest(stage) == \E i \in 1..Len(log) : log[i].ev = "request" /\ log[i].stage = stage

RequestCount(stage) ==
    Cardinality({ i \in 1..Len(log) : log[i].ev = "request" /\ log[i].stage = stage })

FetchFailed(e) == IsFetchResponse(e) /\ (~e.ok \/ e.status >= 400)

\* C5: after a failed page or bundle fetch no further request is issued;
\* without a bundle script tag the bundle is never requested; without an
\* app id no validation is requested; no fetch is issued twice; and none of
\* these runs returns a credential.
C5_FatalStageAborts ==
    /\ \A i \in 1..Len(log) :
          FetchFailed(log[i]) =>
              /\ i = Len(log)
              /\ pc \in {"except", "returned", "done"}
              /\ ~result.some
    /\ (pc \notin {"start", "await_login", "locate"}
        /\ exc = "Could not find bundle URL")
       => /\ ~HasRequest("bundle") /\ ~HasRequest("validate")
          /\ ~result.some
          /\ pc \in {"except", "returned", "done"}
    /\ (pc \notin {"start", "await_login", "locate"}
        /\ \A t \in 1..Len(login_page) : ~MatchesBundleTag(login_page[t]))
       => ~HasRequest("bundle") /\ ~HasRequest("validate") /\ ~result.some
    /\ (pc \notin {"start", "await_login", "locate", "fetch_bundle",
                   "await_bundle", "extract_app_id"}
        /\ bundle_url # <<>> /\ bundle.appIds = <<>>
        /\ exc # "ClientResponseError" /\ exc # "ClientConnectionError")
       => /\ exc = "Could not find app ID"
          /\ ~HasRequest("validate")
          /\ ~result.some
    /\ RequestCount("login") <= 1
    /\ RequestCount("bundle") <= 1

\* A bundle fetch answered 404: the run is over with two requests made.
C5_Witness ==
    /\ pc = "done"
    /\ Len(log) = 4
    /\ log[4].stage = "bundle" /\ log[4].status = 404
    /\ exc = "ClientResponseError"
    /\ ~result.some

----------------------------------------------------------------------------
(* C6 *)

\* C6: after the info/extras pass the keys of the fragment map are those of
\* the seed pass, in the same order, and each region's list is its seed
\* followed by the (info, extras) pairs of the occurrences naming it, in
\* text order.
C6_InfoPassAddsNoKey ==
    AfterInfoPass =>
        /\ [i \in 1..Len(secrets) |-> secrets[i].tz] = FirstSeen(bundle.items, <<>>)
        /\ \A i \in 1..Len(secrets) :
              /\ Len(secrets[i].frags) % 2 = 1
              /\ Head(secrets[i].frags) = LastSeed(bundle.items, secrets[i].tz)
              /\ Tail(secrets[i].frags) = InfoPairs(bundle.items, secrets[i].tz)

\* A region with its seed and two (info, extras) pairs.
C6_Witness ==
    /\ pc = "decode"
    /\ \E i \in 1..Len(secrets) : Len(secrets[i].frags) = 5

\* An info/extras occurrence matched while the seed map is empty.
C6_WitnessEmptySeedMap ==
    /\ pc = "decode"
    /\ secrets = <<>>
    /\ \E i \in 1..Len(bundle.items) : bundle.items[i].tz = <<>>

----------------------------------------------------------------------------
(* C7 *)

\* C7: after the seed pass each region's list is the singleton of the last
\* seed seen for it, and from then on the first fragment of every region,
\* and so every secret sent to validation, comes from that last seed.
C7_LastSeedWins ==
    AfterSeedPass =>
        /\ DictKeys(secrets) = { bundle.items[i].tz : i \in
                                   { j \in 1..Len(bundle.items) : bundle.items[j].kind = "seed" } }
        /\ \A i \in 1..Len(secrets) :
              /\ pc = "info_pass" =>
                    secrets[i].frags = << LastSeed(bundle.items, secrets[i].tz) >>
              /\ AfterInfoPass =>
                    Len(secrets[i].frags) = 1 + Len(InfoPairs(bundle.items, secrets[i].tz))
              /\ Head(secrets[i].frags) = LastSeed(bundle.items, secrets[i].tz)
        /\ ValidateRequests # <<>> =>
              LET texts == { decode_secret(<<LastSeed(bundle.items, tz)>>
                                           \o InfoPairs(bundle.items, tz)).text :
                             tz \in DictKeys(secrets) }
              IN \A k \in 1..Len(ValidateRequests) : ValidateRequests[k].secret \in texts

\* The same region seeded twice with different seeds; the seed pass is done.
C7_Witness ==
    /\ pc = "info_pass"
    /\ \E i, j \in 1..Len(bundle.items) :
          /\ i < j
          /\ bundle.items[i].kind = "seed" /\ bundle.items[j].kind = "seed"
          /\ bundle.items[i].tz = bundle.items[j].tz
          /\ bundle.items[i].a # bundle.items[j].a

----------------------------------------------------------------------------
(* C8 *)

FailedLine == <<"Failed to retrieve app ID and secret.">>

\* C8 as stated: a run that fails prints a single diagnostic line and yields
\* no credential; a run that succeeds prints the two credential fields.
C8_SingleDiagnosticLine ==
    pc = "done" =>
        IF result.some
        THEN /\ \E i \in 1..Len(output) : output[i] = <<"App ID:", result.app_id>>
             /\ \E i \in 1..Len(output) : output[i] = <<"Secret:", result.secret>>
        ELSE Len(output) = 1

\* C8 amended: a run that fails prints two lines, "Error: <exception>" from
\* the except clause and then "Failed to retrieve app ID and secret.", and
\* yields no credential; a run that succeeds prints a heading and then the
\* two credential fields, and no error line.
C8_TwoDiagnosticLines ==
    pc = "done" =>
        IF result.some
        THEN /\ exc = ""
             /\ output = << <<"Qobuz AppID and Secret">>,
                            <<"App ID:", result.app_id>>,
                            <<"Secret:", result.secret>> >>
        ELSE /\ exc # ""
             /\ result = None
             /\ output = << <<"Error:", exc>>, FailedLine >>

\* A failed run that has printed everything it prints.
C8_Witness ==
    /\ pc = "done"
    /\ exc = "Could not find app ID"
    /\ Len(output) = 2

----------------------------------------------------------------------------
(* C9 *)

\* C9: a region whose fragments fail to decode never aborts the run: the
\* decode stage raises nothing and leaves exactly the decodable candidates,
\* in discovery order, for validation.
C9_DecodeFailureNotFatal ==
    AfterDecode =>
        /\ exc # AsciiError
        /\ decoded_secrets = Candidates(secrets)

----------------------------------------------------------------------------
(* C10 *)

\* C10: every secret sent to validation is the non-empty text some region's
\* fragments decode to; the k-th call is for the k-th decodable region, so a
\* region is validated at most once and there are no more calls than
\* discovered regions.
C10_OnlyNonEmptyCandidates ==
    ValidateRequests # <<>> =>
        LET rs == Decodes(secrets)
            pos == SelectSeq([i \in 1..Len(secrets) |-> i], LAMBDA i : NonEmptyText(rs[i]))
        IN
        /\ Len(ValidateRequests) <= Len(secrets)
        /\ Len(ValidateRequests) <= Len(pos)
        /\ \A k \in 1..Len(ValidateRequests) :
              /\ ValidateRequests[k].secret # <<>>
              /\ rs[pos[k]].kind = "value"
              /\ rs[pos[k]].text = ValidateRequests[k].secret
              /\ Len(Join(secrets[pos[k]].frags)) > TrailerLen

\* Two regions, one whose fragments are no longer than 44 characters and one
\* that decodes: one validation call was made, and the scan is over.
C10_Witness ==
    /\ pc = "done"
    /\ Len(secrets) = 2
    /\ \E i \in 1..2 : Len(Join(secrets[i].frags)) <= TrailerLen
    /\ Len(ValidateRequests) = 1
    /\ exc = "No valid secret found"

====
